---- MODULE Spec2Model ----
(***************************************************************************)
(* Flesh and Blood tournament result pipeline: the row normaliser          *)
(* (scrape_round), the round collectors (the two sequential main loops and *)
(* the thread-pool collector analyze_tournament), the statistics           *)
(* aggregator (process_data / calculate_stats / prepare_hero_stats) and    *)
(* the Streamlit session state that combines several tournaments.          *)
(*                                                                         *)
(* Python None is the string "None".  Win rates are kept in hundredths of  *)
(* a percent (5000 is 50.0), so round(x, 2) is an integer here.            *)
(***************************************************************************)
EXTENDS Integers, Sequences, FiniteSets, TLC

\* ------------------------------------------------------------------ bounds
MaxRows == 2
MaxMatches == 2
DataRounds == 4
ConcDataRounds == 2
MaxUrls == 2

\* --------------------------------------------------------------- the values
Null == "None"
Names == {"Alice", "Bob"}
Heroes == {"HeroX", "HeroY"}
Variants == {"gsheets_format", "personal_detailed"}

\* A participant block of a result row (div.tournament-coverage__player):
\* name is the text of its span, hero the text of its hero-and-deck div
\* (Null when the element is missing and find() returns None), winner tells
\* whether its class list has tournament-coverage__player--winner.
PlayerBlocks == [name : Names, hero : Heroes, winner : BOOLEAN]

NoNameBlock == [name |-> Null, hero |-> "HeroX", winner |-> FALSE]
NoHeroBlock == [name |-> "Alice", hero |-> Null, winner |-> TRUE]
SomeBlock == [name |-> "Bob", hero |-> "HeroY", winner |-> TRUE]

\* A result row is the list of its participant blocks: none, one, two
\* well-formed ones, or two of which one lacks an element.
Rows == {<<>>, <<SomeBlock>>}
            \cup {<<a, b>> : a \in PlayerBlocks, b \in PlayerBlocks}
            \cup {<<NoNameBlock, SomeBlock>>, <<SomeBlock, NoHeroBlock>>}

RoundLabel(round_num) == <<"Round", round_num>>

\* ------------------------------------------------- defaultdict, list helpers
Get(d, k, default) == IF k \in DOMAIN d THEN d[k] ELSE default

Put(d, k, v) == (k :> v) @@ d

RECURSIVE SumOver(_, _)
SumOver(f, S) ==
    IF S = {} THEN 0
    ELSE LET x == CHOOSE y \in S : TRUE IN f[x] + SumOver(f, S \ {x})

RECURSIVE Concat(_)
Concat(seqs) == IF seqs = <<>> THEN <<>> ELSE Head(seqs) \o Concat(Tail(seqs))

\* ------------------------------------------------------------ scrape_round
\* players[i].find(...).get_text() raises AttributeError on a missing element.
RowRaises(players) ==
    \/ players[1].name = Null \/ players[1].hero = Null
    \/ players[2].name = Null \/ players[2].hero = Null

ResolveWinnerP2First(players) ==
    IF players[2].winner THEN players[2].name
    ELSE IF players[1].winner THEN players[1].name
    ELSE Null

ResolveWinner(players) ==
    IF players[1].winner THEN players[1].name
    ELSE IF players[2].winner THEN players[2].name
    ELSE Null

MatchRecord(round_num, players) ==
    LET p1_name == players[1].name
        p1_hero == players[1].hero
        p2_name == players[2].name
        p2_hero == players[2].hero
        winner == ResolveWinner(players)
    IN  [Round |-> RoundLabel(round_num),
         Player1Name |-> p1_name, Player1Hero |-> p1_hero,
         Player2Name |-> p2_name, Player2Hero |-> p2_hero,
         Winner |-> winner,
         WinningHero |-> IF winner = p1_name THEN p1_hero
                         ELSE IF winner = p2_name THEN p2_hero
                         ELSE Null]

ScrapeRowSkipsUndecided(matches, round_num, players) ==
    IF Len(players) >= 2
    THEN IF RowRaises(players)
         THEN [status |-> "raise", matches |-> matches]
         ELSE [status |-> "ok",
               matches |-> IF ResolveWinner(players) = Null THEN matches
                           ELSE Append(matches, MatchRecord(round_num, players))]
    ELSE [status |-> "ok", matches |-> matches]

\* The body of "for row in match_rows": status is "ok" or "raise".
ScrapeRow(matches, round_num, players) ==
    IF Len(players) >= 2
    THEN IF RowRaises(players)
         THEN [status |-> "raise", matches |-> matches]
         ELSE [status |-> "ok",
               matches |-> Append(matches, MatchRecord(round_num, players))]
    ELSE [status |-> "ok", matches |-> matches]

RECURSIVE ScrapeRows(_, _, _)
ScrapeRows(matches, round_num, match_rows) ==
    IF match_rows = <<>> THEN [status |-> "ok", matches |-> matches]
    ELSE LET r == ScrapeRow(matches, round_num, Head(match_rows))
         IN  IF r.status = "raise" THEN r
             ELSE ScrapeRows(r.matches, round_num, Tail(match_rows))

\* The value of a call is [status, matches]: status "ok" with the returned
\* list, "none" for a returned None (matches is then empty), "raise" for an
\* exception that leaves the call.
\* "if not soup": gsheets_format returns None, personal_detailed returns [].
NoSoup(v) ==
    [status |-> IF v = "gsheets_format" THEN "none" ELSE "ok", matches |-> <<>>]

\* scrape_round on a page [fetch, rows]: fetch is "200", "non200" or "raise"
\* (requests.get raising).
scrape_round(v, page, round_num) ==
    IF page.fetch = "raise" THEN [status |-> "raise", matches |-> <<>>]
    ELSE IF page.fetch = "non200" THEN NoSoup(v)
    ELSE LET r == ScrapeRows(<<>>, round_num, page.rows)
         IN  IF r.status = "raise" THEN [status |-> "raise", matches |-> <<>>]
             ELSE r

\* "not round_matches" / "if result:": None and the empty list are falsy.
Falsy(result) == result.status = "none" \/ result.matches = <<>>

\* The records scrape_round can produce for round 1.
MatchRecords ==
    {MatchRecord(1, row) : row \in {r \in Rows : Len(r) = 2 /\ ~RowRaises(r)}}

\* ---------------------------------------------------------------- win rate
\* round(wins / total * 100, 2) in hundredths of a percent; Python rounds an
\* exactly representable tie to the even neighbour.
Round2(wins, total) ==
    LET q == (10000 * wins) \div total
        r == (10000 * wins) % total
    IN  IF 2 * r < total THEN q
        ELSE IF 2 * r > total THEN q + 1
        ELSE IF q % 2 = 0 THEN q ELSE q + 1

WinRateOfLosses(wins, losses) ==
    IF wins + losses > 0 THEN Round2(losses, wins + losses) ELSE 0

WinRate(wins, losses) ==
    IF wins + losses > 0 THEN Round2(wins, wins + losses) ELSE 0

\* ------------------------------------------------------------ process_data
NewPlayer == [wins |-> 0, losses |-> 0, heroes_used |-> {}]
NewMatchup == [wins |-> 0, losses |-> 0]
NewHero == [wins |-> 0, losses |-> 0, matchups |-> << >>]

EmptyAcc ==
    [player_stats |-> << >>, hero_stats |-> << >>,
     all_player_details |-> <<>>, all_matches |-> <<>>]

AddHeroUsedLatest(ps, p, h) ==
    LET s == Get(ps, p, NewPlayer)
    IN  Put(ps, p, [s EXCEPT !.heroes_used = {h}])

AddHeroUsed(ps, p, h) ==
    LET s == Get(ps, p, NewPlayer)
    IN  Put(ps, p, [s EXCEPT !.heroes_used = @ \cup {h}])

IncPlayerStreak(ps, p, field) ==
    LET s == Get(ps, p, NewPlayer)
    IN  Put(ps, p, [wins |-> IF field = "wins" THEN s.wins + 1 ELSE 0,
                    losses |-> IF field = "losses" THEN s.losses + 1 ELSE 0,
                    heroes_used |-> s.heroes_used])

IncPlayer(ps, p, field) ==
    LET s == Get(ps, p, NewPlayer)
    IN  Put(ps, p, [s EXCEPT ![field] = @ + 1])

IncHeroWinsOnly(hs, h, field) ==
    LET s == Get(hs, h, NewHero)
    IN  Put(hs, h, [s EXCEPT !.wins = @ + 1])

IncHero(hs, h, field) ==
    LET s == Get(hs, h, NewHero)
    IN  Put(hs, h, [s EXCEPT ![field] = @ + 1])

IncMatchupWinsOnly(hs, h, opponent, field) ==
    LET s == Get(hs, h, NewHero)
        m == Get(s.matchups, opponent, NewMatchup)
    IN  Put(hs, h, [s EXCEPT !.matchups =
                        Put(@, opponent, [m EXCEPT !.wins = @ + 1])])

IncMatchup(hs, h, opponent, field) ==
    LET s == Get(hs, h, NewHero)
        m == Get(s.matchups, opponent, NewMatchup)
    IN  Put(hs, h, [s EXCEPT !.matchups =
                        Put(@, opponent, [m EXCEPT ![field] = @ + 1])])

RecordWinNoLoss(acc, pw, pl, hw, hl) ==
    [acc EXCEPT
        !.player_stats = IncPlayer(@, pw, "wins"),
        !.hero_stats =
            IncMatchup(
                IncMatchup(
                    IncHero(IncHero(@, hw, "wins"), hl, "losses"),
                    hw, hl, "wins"),
                hl, hw, "losses")]

\* The six counter updates of one branch of "if winner == p1 / elif".
RecordWin(acc, pw, pl, hw, hl) ==
    [acc EXCEPT
        !.player_stats = IncPlayer(IncPlayer(@, pw, "wins"), pl, "losses"),
        !.hero_stats =
            IncMatchup(
                IncMatchup(
                    IncHero(IncHero(@, hw, "wins"), hl, "losses"),
                    hw, hl, "wins"),
                hl, hw, "losses")]

PlayerDetail(match, player, hero, opponent, opponent_hero) ==
    [Player |-> player, Hero |-> hero, Round |-> match.Round,
     Opponent |-> opponent, OpponentHero |-> opponent_hero,
     Result |-> IF match.Winner = player THEN "Win" ELSE "Loss"]

ProcessMatchCountsUndecided(acc, match) ==
    LET p1 == match.Player1Name
        p2 == match.Player2Name
        h1 == match.Player1Hero
        h2 == match.Player2Hero
        winner == match.Winner
        a1 == [acc EXCEPT
                 !.all_matches = Append(@, match),
                 !.player_stats = AddHeroUsed(AddHeroUsed(@, p1, h1), p2, h2)]
        a2 == IF winner = p1 THEN RecordWin(a1, p1, p2, h1, h2)
              ELSE RecordWin(a1, p2, p1, h2, h1)
    IN  [a2 EXCEPT
           !.all_player_details =
               @ \o <<PlayerDetail(match, p1, h1, p2, h2),
                      PlayerDetail(match, p2, h2, p1, h1)>>]

\* One iteration of "for match in matches".
ProcessMatch(acc, match) ==
    LET p1 == match.Player1Name
        p2 == match.Player2Name
        h1 == match.Player1Hero
        h2 == match.Player2Hero
        winner == match.Winner
        a1 == [acc EXCEPT
                 !.all_matches = Append(@, match),
                 !.player_stats = AddHeroUsed(AddHeroUsed(@, p1, h1), p2, h2)]
        a2 == IF winner = p1 THEN RecordWin(a1, p1, p2, h1, h2)
              ELSE IF winner = p2 THEN RecordWin(a1, p2, p1, h2, h1)
              ELSE a1
    IN  [a2 EXCEPT
           !.all_player_details =
               @ \o <<PlayerDetail(match, p1, h1, p2, h2),
                      PlayerDetail(match, p2, h2, p1, h1)>>]

RECURSIVE FoldReversed(_, _)
FoldReversed(acc, matches) ==
    IF matches = <<>> THEN acc
    ELSE ProcessMatch(FoldReversed(acc, Tail(matches)), Head(matches))

RECURSIVE Fold(_, _)
Fold(acc, matches) ==
    IF matches = <<>> THEN acc
    ELSE Fold(ProcessMatch(acc, Head(matches)), Tail(matches))

\* The orders ', '.join(stats['heroes_used']) can list a set in.
RECURSIVE Orders(_)
Orders(S) ==
    IF S = {} THEN {<<>>}
    ELSE UNION {{<<x>> \o o : o \in Orders(S \ {x})} : x \in S}

JoinOrders(ps) ==
    {j \in [DOMAIN ps -> UNION {Orders(H) : H \in SUBSET Heroes}] :
        \A p \in DOMAIN ps : j[p] \in Orders(ps[p].heroes_used)}

\* The order a set of strings is listed in is fixed by the string hashes of
\* the running process: a seed gives every set of heroes its order.
HashSeeds ==
    {seed \in [SUBSET Heroes -> UNION {Orders(H) : H \in SUBSET Heroes}] :
        \A H \in SUBSET Heroes : seed[H] \in Orders(H)}

\* ', '.join(stats['heroes_used']) for every player, under a seed
JoinOf(seed, ps) == [p \in DOMAIN ps |-> seed[ps[p].heroes_used]]

player_stats_df(ps, join) ==
    {[Player |-> player, Wins |-> ps[player].wins,
      Losses |-> ps[player].losses,
      WinRate |-> WinRate(ps[player].wins, ps[player].losses),
      HeroesUsed |-> join[player]] : player \in DOMAIN ps}

hero_stats_dfAllHeroes(hs) ==
    {[Hero |-> hero, Wins |-> Get(hs, hero, NewHero).wins,
      Losses |-> Get(hs, hero, NewHero).losses,
      TotalMatches |-> Get(hs, hero, NewHero).wins + Get(hs, hero, NewHero).losses,
      WinRate |-> WinRate(Get(hs, hero, NewHero).wins,
                          Get(hs, hero, NewHero).losses)] : hero \in Heroes}

hero_stats_df(hs) ==
    {[Hero |-> hero, Wins |-> hs[hero].wins, Losses |-> hs[hero].losses,
      TotalMatches |-> hs[hero].wins + hs[hero].losses,
      WinRate |-> WinRate(hs[hero].wins, hs[hero].losses)] : hero \in DOMAIN hs}

\* The keys and values of the nested matchup dicts, as (hero, opponent) pairs.
MatchupPairs(hs) ==
    {pair \in (DOMAIN hs) \X Heroes : pair[2] \in DOMAIN hs[pair[1]].matchups}

hero_matchups_dfWithWins(hs) ==
    {[Hero |-> pair[1], OpponentHero |-> pair[2],
      Wins |-> hs[pair[1]].matchups[pair[2]].wins,
      Losses |-> hs[pair[1]].matchups[pair[2]].losses,
      TotalMatches |-> hs[pair[1]].matchups[pair[2]].wins
                         + hs[pair[1]].matchups[pair[2]].losses,
      WinRate |-> Round2(hs[pair[1]].matchups[pair[2]].wins,
                         hs[pair[1]].matchups[pair[2]].wins
                           + hs[pair[1]].matchups[pair[2]].losses)] :
        pair \in {q \in MatchupPairs(hs) : hs[q[1]].matchups[q[2]].wins > 0}}

hero_matchups_df(hs) ==
    {[Hero |-> pair[1], OpponentHero |-> pair[2],
      Wins |-> hs[pair[1]].matchups[pair[2]].wins,
      Losses |-> hs[pair[1]].matchups[pair[2]].losses,
      TotalMatches |-> hs[pair[1]].matchups[pair[2]].wins
                         + hs[pair[1]].matchups[pair[2]].losses,
      WinRate |-> Round2(hs[pair[1]].matchups[pair[2]].wins,
                         hs[pair[1]].matchups[pair[2]].wins
                           + hs[pair[1]].matchups[pair[2]].losses)] :
        pair \in {q \in MatchupPairs(hs) :
                    hs[q[1]].matchups[q[2]].wins
                      + hs[q[1]].matchups[q[2]].losses > 0}}

\* The five DataFrames process_data returns from its accumulators.
DataFrames(acc, join) ==
    [match_results |-> acc.all_matches,
     player_stats |-> player_stats_df(acc.player_stats, join),
     hero_stats |-> hero_stats_df(acc.hero_stats),
     hero_matchups |-> hero_matchups_df(acc.hero_stats),
     player_details |-> acc.all_player_details]

\* The order CPython lists a set of these strings in is not fixed by the
\* code; process_data as a function takes the order as a parameter.
process_data(matches, join) == DataFrames(Fold(EmptyAcc, matches), join)

\* ------------------------------------------------------------- the site
\* The pages a tournament site can serve for a round.  Rounds after
\* DataRounds have no results.
RowAliceBeatsBob ==
    <<[name |-> "Alice", hero |-> "HeroX", winner |-> TRUE],
      [name |-> "Bob", hero |-> "HeroY", winner |-> FALSE]>>

RowBobBeatsAlice ==
    <<[name |-> "Alice", hero |-> "HeroX", winner |-> FALSE],
      [name |-> "Bob", hero |-> "HeroX", winner |-> TRUE]>>

RowUndecided ==
    <<[name |-> "Bob", hero |-> "HeroX", winner |-> FALSE],
      [name |-> "Alice", hero |-> "HeroY", winner |-> FALSE]>>

EmptyPages ==
    {[fetch |-> "non200", rows |-> <<>>],
     [fetch |-> "200", rows |-> <<>>],
     [fetch |-> "200", rows |-> <<<<SomeBlock>>>>]}

FailingPages ==
    {[fetch |-> "raise", rows |-> <<>>],
     [fetch |-> "200", rows |-> <<<<NoNameBlock, SomeBlock>>>>]}

DataPages ==
    {[fetch |-> "200", rows |-> <<RowAliceBeatsBob>>],
     [fetch |-> "200", rows |-> <<RowUndecided, <<SomeBlock>>, RowAliceBeatsBob>>]}

SitePages(round_num) ==
    EmptyPages \cup FailingPages
        \cup (IF round_num <= DataRounds THEN DataPages ELSE {})

\* ------------------------------------------- the sequential collectors (main)
max_rounds == 20
max_empty_rounds == 1
GsRounds == 20
GsAttempts == 3

StopAfterEmptyLate(empty_rounds) == empty_rounds > max_empty_rounds

\* personal_detailed: "if empty_rounds >= max_empty_rounds: break"
StopAfterEmpty(empty_rounds) == empty_rounds >= max_empty_rounds

\* gsheets_format: "if max_attempts == 0: break"
OutOfAttempts(max_attempts) == max_attempts = 0

\* What the log of requests keeps of a call of scrape_round.
Outcome(result) ==
    IF result.status = "raise" THEN "raise"
    ELSE IF Falsy(result) THEN "empty" ELSE "data"

\* -------------------------------------- the concurrent collector's helpers
NumFutures == 20
max_workers == 5

\* The pages served to analyze_tournament: results in rounds 1..ConcDataRounds
\* at most, an empty results page after them.
ConcPages(r) ==
    IF r <= ConcDataRounds
    THEN {[fetch |-> "non200", rows |-> <<>>]} \cup FailingPages
            \cup {[fetch |-> "200", rows |-> <<RowUndecided, RowAliceBeatsBob>>]}
    ELSE {[fetch |-> "200", rows |-> <<>>]}

\* cached_scrape: scrape_round of gsheets_format, None when it raises.  The
\* cache keeps one value per (url, round), which is asked for once per run.
cached_scrape(page, r) ==
    LET result == scrape_round("gsheets_format", page, r)
    IN  IF result.status = "raise"
        THEN [status |-> "none", matches |-> <<>>]
        ELSE result

FutureAtReversed(k) == NumFutures - k

\* "for i, future in enumerate(futures)": futures[i] is the fetch of round i + 1
FutureAt(k) == k + 1

\* ------------------------------------------------- the Streamlit app's helpers
\* The URLs a user enters, as the list url.split('/') yields.
UrlBologna ==
    <<"https:", "", "fabtcg.com", "en", "coverage", "calling-bologna-2025", "results", "">>
UrlBolognaFr ==
    <<"https:", "", "fabtcg.com", "fr", "coverage", "calling-bologna-2025", "results", "">>
UrlTokyo ==
    <<"https:", "", "fabtcg.com", "en", "coverage", "pro-tour-tokyo", "results", "">>
Urls == {UrlBologna, UrlBolognaFr, UrlTokyo}

\* s.replace('-', ' ').title() on the slugs above
Title(slug) ==
    CASE slug = "calling-bologna-2025" -> "Calling Bologna 2025"
      [] slug = "pro-tour-tokyo" -> "Pro Tour Tokyo"

\* url.split('/')[-3].replace('-', ' ').title()
tournament_name(url) == Title(url[Len(url) - 2])

\* The lists of URLs the text area can hold.
UrlLists == UNION {[1..n -> Urls] : n \in 0..MaxUrls}

\* The first-round page of the tournament behind a URL: the request fails,
\* or the page holds that tournament's results.  Later rounds have an empty
\* results page.
UiPages(url) ==
    {[fetch |-> "non200", rows |-> <<>>],
     [fetch |-> "200",
      rows |-> IF url = UrlBologna THEN <<RowUndecided, RowAliceBeatsBob>>
               ELSE IF url = UrlBolognaFr THEN <<RowBobBeatsAlice>>
               ELSE <<RowAliceBeatsBob>>]}

TournamentPages(first) ==
    [r \in 1..NumFutures |->
        IF r = 1 THEN first ELSE [fetch |-> "200", rows |-> <<>>]]

\* The sites the app can be pointed at: one tournament per URL.
Sites ==
    {st \in [Urls -> {TournamentPages(first) :
                        first \in UNION {UiPages(url) : url \in Urls}}] :
        \A url \in Urls : st[url][1] \in UiPages(url)}

\* What analyze_tournament collects from the pages of a tournament: the
\* truthy results of cached_scrape for rounds 1..20, in round order.
RECURSIVE CollectFrom(_, _)
CollectFrom(pages, r) ==
    IF r > NumFutures THEN <<>>
    ELSE LET result == cached_scrape(pages[r], r)
         IN  (IF Falsy(result) THEN <<>> ELSE result.matches)
                \o CollectFrom(pages, r + 1)

CollectAll(pages) == CollectFrom(pages, 1)

\* The value of analyze_tournament(url), as a list: empty for None, else
\* one [frames, name].
analyze_tournament(seed, pages, url) ==
    LET all == CollectAll(pages)
        a == Fold(EmptyAcc, all)
    IN  IF all = <<>> THEN <<>>
        ELSE <<[frames |-> DataFrames(a, JoinOf(seed, a.player_stats)),
                name |-> tournament_name(url)]>>

\* "for i, url in enumerate(urls)": the list of [frames, name] the loop of
\* Compare Tournaments appends, one entry per URL that loads.
RECURSIVE LoadResults(_, _, _)
LoadResults(seed, st, urls) ==
    IF urls = <<>> THEN <<>>
    ELSE analyze_tournament(seed, st[Head(urls)], Head(urls))
            \o LoadResults(seed, st, Tail(urls))

\* st.session_state.multi_df after the loop: result[0] of each loaded result
RECURSIVE FramesOf(_)
FramesOf(loaded) ==
    IF loaded = <<>> THEN <<>>
    ELSE <<Head(loaded).frames>> \o FramesOf(Tail(loaded))

RECURSIVE NamesOfNewestFirst(_)
NamesOfNewestFirst(loaded) ==
    IF loaded = <<>> THEN <<>>
    ELSE NamesOfNewestFirst(Tail(loaded)) \o <<Head(loaded).name>>

\* st.session_state.tournament_names after the loop: result[1] of each
RECURSIVE NamesOf(_)
NamesOf(loaded) ==
    IF loaded = <<>> THEN <<>>
    ELSE <<Head(loaded).name>> \o NamesOf(Tail(loaded))

\* df['1_match_results'].assign(Tournament=name)
RECURSIVE AssignTournament(_, _)
AssignTournament(rows, name) ==
    IF rows = <<>> THEN <<>>
    ELSE LET row == Head(rows)
         IN  <<[Round |-> row.Round,
                Player1Name |-> row.Player1Name, Player1Hero |-> row.Player1Hero,
                Player2Name |-> row.Player2Name, Player2Hero |-> row.Player2Hero,
                Winner |-> row.Winner, WinningHero |-> row.WinningHero,
                Tournament |-> name]>>
                \o AssignTournament(Tail(rows), name)

\* What a missing value of a DataFrame column reads back as in
\* to_dict('records'): None or NaN, by the dtype pandas gave the column.
MissingValues == {Null, "NaN"}

RECURSIVE ToRecordsFillWinner(_, _)
ToRecordsFillWinner(rows, missing) ==
    IF rows = <<>> THEN <<>>
    ELSE <<[Head(rows) EXCEPT
              !.Winner = IF @ = Null THEN Head(rows).Player1Name ELSE @,
              !.WinningHero = IF @ = Null THEN Head(rows).Player1Hero ELSE @]>>
            \o ToRecordsFillWinner(Tail(rows), missing)

\* all_matches.to_dict('records')
RECURSIVE ToRecords(_, _)
ToRecords(rows, missing) ==
    IF rows = <<>> THEN <<>>
    ELSE <<[Head(rows) EXCEPT
              !.Winner = IF @ = Null THEN missing ELSE @,
              !.WinningHero = IF @ = Null THEN missing ELSE @]>>
            \o ToRecords(Tail(rows), missing)

\* pd.concat([df['1_match_results'].assign(Tournament=name) for df, name in
\* zip(multi_df, tournament_names)])
RECURSIVE ConcatTagged(_, _)
ConcatTagged(dfs, names) ==
    IF dfs = <<>> THEN <<>>
    ELSE AssignTournament(Head(dfs).match_results, Head(names))
            \o ConcatTagged(Tail(dfs), Tail(names))

\* aggregated_data of plot_aggregated_analysis, as a list: empty when no
\* tournament is loaded.
AggregatedData(seed, missing, dfs, names) ==
    IF Len(dfs) < 1 THEN <<>>
    ELSE LET records == ToRecords(ConcatTagged(dfs, names), missing)
             a == Fold(EmptyAcc, records)
         IN  <<DataFrames(a, JoinOf(seed, a.player_stats))>>

\* ----------------------------------- plot_multi_tournament_comparison
\* combined: the hero_stats rows of every loaded tournament, each tagged
\* with the tournament's name; pos is the row's tournament in load order.
CombinedHeroStats(dfs, names) ==
    UNION {{[pos |-> k, Tournament |-> names[k], row |-> r] :
               r \in dfs[k].hero_stats} : k \in 1..Len(dfs)}

\* the metrics of the "Comparison Metric" selectbox
Metrics == {"WinRate", "TotalMatches", "Wins"}

RECURSIVE SumMetric(_, _)
SumMetric(entries, metric) ==
    IF entries = {} THEN 0
    ELSE LET e == CHOOSE x \in entries : TRUE
         IN  e.row[metric] + SumMetric(entries \ {e}, metric)

\* combined.groupby(['Hero', 'Tournament'])[metric].mean(): one bar per
\* (Hero, Tournament) group; the mean is Sum / Count.
GroupMeans(combined, metric) ==
    {LET group == {e \in combined :
                     e.row.Hero = key[1] /\ e.Tournament = key[2]}
     IN  [Hero |-> key[1], Tournament |-> key[2], Metric |-> metric,
          Sum |-> SumMetric(group, metric), Count |-> Cardinality(group)] :
        key \in {<<e.row.Hero, e.Tournament>> : e \in combined}}

\* What the comparison tab shows, as a list: empty for the warning, else the
\* bars of every metric the selectbox offers and the raw comparison table.
ComparisonData(dfs, names) ==
    IF Len(dfs) < 2 THEN <<>>
    ELSE LET combined == CombinedHeroStats(dfs, names)
         IN  <<[bars |-> UNION {GroupMeans(combined, metric) : metric \in Metrics},
                raw |-> combined]>>

\* =================================================================== state
VARIABLES
    variant,            \* which program runs: gsheets_format or personal_detailed
    hash_seed,          \* the process's string hashing: set of heroes -> order
    na_value,           \* what the installed pandas reads a missing value as
    \* scrape_round
    round_num_arg,      \* its round_num argument
    match_rows,         \* the rows of the page the loop has taken so far
    matches,            \* its list of records
    sr_pc,              \* "fetch", "loop", "returned", "raised", or "idle"
    sr_result,          \* what the call returned: [status, matches]
    \* process_data
    player_stats, hero_stats, all_player_details, all_matches,
    pd_pc,              \* "loop", "done", or "idle"
    data_frames,        \* the returned DataFrames (Null before it returns)
    \* the round loop of main and of analyze_tournament
    round_num,          \* the loop variable
    all_rounds,         \* the records collected so far
    empty_rounds,       \* personal_detailed: consecutive empty rounds
    max_attempts,       \* gsheets_format: attempts left
    found_rounds,       \* gsheets_format: rounds with data
    main_pc,            \* "loop", "after_loop", "no_data", "processed",
                        \* "crashed", or "idle"
    requested,          \* the calls of scrape_round made: [round, fetch,
                        \* rows, outcome], fetch and rows being the page
                        \* the site served
    \* analyze_tournament
    futures,            \* round -> [state, result]; state is "queued",
                        \* "running" or "done"
    i,                  \* the number of futures the main thread has read
    at_pc,              \* "submit", "collect", "after", "returned_none",
                        \* "returned", or "idle"
    out_of_order,       \* history: a fetch has finished before the fetch of
                        \* an earlier round
    \* the Streamlit session
    site,               \* url -> the pages of that tournament, by round
    df,                 \* st.session_state.df: <<>> for None, else <<frames>>
    tournament_name_ss, \* st.session_state.tournament_name (Null: not set)
    match_count,        \* st.session_state.match_count (-1: not set)
    multi_df,           \* st.session_state.multi_df
    tournament_names,   \* st.session_state.tournament_names
    aggregated_data     \* what plot_aggregated_analysis shows: <<>> for the
                        \* warning, else <<frames>>

envVars == <<variant, hash_seed, na_value>>
scrapeVars == <<round_num_arg, match_rows, matches, sr_pc, sr_result>>
aggVars == <<player_stats, hero_stats, all_player_details, all_matches,
             pd_pc, data_frames>>
loopVars == <<round_num, all_rounds, empty_rounds, max_attempts, found_rounds,
              main_pc, requested>>
poolVars == <<futures, i, at_pc, out_of_order>>
uiVars == <<site, df, tournament_name_ss, match_count, multi_df,
            tournament_names, aggregated_data>>
vars == <<envVars, scrapeVars, aggVars, loopVars, poolVars, uiVars>>

ScrapeIdle ==
    /\ round_num_arg = 0 /\ match_rows = <<>> /\ matches = <<>>
    /\ sr_pc = "idle" /\ sr_result = [status |-> "pending", matches |-> <<>>]

AggIdle ==
    /\ player_stats = << >> /\ hero_stats = << >>
    /\ all_player_details = <<>> /\ all_matches = <<>>
    /\ pd_pc = "idle" /\ data_frames = Null

LoopIdle ==
    /\ round_num = 0 /\ all_rounds = <<>> /\ empty_rounds = 0
    /\ max_attempts = 0 /\ found_rounds = 0
    /\ main_pc = "idle" /\ requested = <<>>

PoolIdle ==
    futures = << >> /\ i = 0 /\ at_pc = "idle" /\ out_of_order = FALSE

UiIdle ==
    /\ site = << >> /\ df = <<>> /\ tournament_name_ss = Null
    /\ match_count = -1 /\ multi_df = <<>> /\ tournament_names = <<>>
    /\ aggregated_data = <<>>

\* ------------------------------------------------- scrape_round, step by step
InitScrape ==
    /\ variant \in Variants
    /\ hash_seed = CHOOSE seed \in HashSeeds : TRUE
    /\ na_value = Null
    /\ round_num_arg \in 1..2
    /\ match_rows = <<>> /\ matches = <<>>
    /\ sr_pc = "fetch" /\ sr_result = [status |-> "pending", matches |-> <<>>]
    /\ AggIdle /\ LoopIdle /\ PoolIdle /\ UiIdle

\* soup = fetch_page(url); if not soup: return None (or [])
FetchPage ==
    /\ sr_pc = "fetch"
    /\ \E fetch \in {"200", "non200", "raise"} :
          /\ sr_pc' = CASE fetch = "200" -> "loop"
                         [] fetch = "non200" -> "returned"
                         [] OTHER -> "raised"
          /\ sr_result' = CASE fetch = "200" -> sr_result
                             [] fetch = "non200" -> NoSoup(variant)
                             [] OTHER -> [status |-> "raise", matches |-> <<>>]
    /\ UNCHANGED <<envVars, round_num_arg, match_rows, matches, aggVars, loopVars, poolVars, uiVars>>

\* one iteration of "for row in match_rows"
ScrapeRowStep ==
    /\ sr_pc = "loop"
    /\ Len(match_rows) < MaxRows
    /\ \E players \in Rows :
          LET r == ScrapeRow(matches, round_num_arg, players)
          IN  /\ match_rows' = Append(match_rows, players)
              /\ matches' = r.matches
              /\ sr_pc' = IF r.status = "raise" THEN "raised" ELSE "loop"
              /\ sr_result' = IF r.status = "raise"
                               THEN [status |-> "raise", matches |-> <<>>]
                               ELSE sr_result
    /\ UNCHANGED <<envVars, round_num_arg, aggVars, loopVars, poolVars, uiVars>>

\* return matches
ScrapeReturn ==
    /\ sr_pc = "loop"
    /\ sr_pc' = "returned"
    /\ sr_result' = [status |-> "ok", matches |-> matches]
    /\ UNCHANGED <<envVars, round_num_arg, match_rows, matches, aggVars, loopVars, poolVars, uiVars>>

NextScrape == FetchPage \/ ScrapeRowStep \/ ScrapeReturn

SpecScrape == InitScrape /\ [][NextScrape]_vars

\* ------------------------------------------------- process_data, step by step
Acc ==
    [player_stats |-> player_stats, hero_stats |-> hero_stats,
     all_player_details |-> all_player_details, all_matches |-> all_matches]

InitAgg ==
    /\ variant = "gsheets_format"
    /\ hash_seed \in HashSeeds
    /\ na_value = Null
    /\ ScrapeIdle /\ LoopIdle /\ PoolIdle /\ UiIdle
    /\ player_stats = << >> /\ hero_stats = << >>
    /\ all_player_details = <<>> /\ all_matches = <<>>
    /\ pd_pc = "loop" /\ data_frames = Null

\* one iteration of "for match in matches"
ProcessMatchStep ==
    /\ pd_pc = "loop"
    /\ Len(all_matches) < MaxMatches
    /\ \E match \in MatchRecords :
          LET a == ProcessMatch(Acc, match)
          IN  /\ player_stats' = a.player_stats
              /\ hero_stats' = a.hero_stats
              /\ all_player_details' = a.all_player_details
              /\ all_matches' = a.all_matches
    /\ UNCHANGED <<envVars, scrapeVars, loopVars, poolVars, uiVars, pd_pc, data_frames>>

\* the DataFrames are built and returned
BuildDataFrames ==
    /\ pd_pc = "loop"
    /\ data_frames' = DataFrames(Acc, JoinOf(hash_seed, player_stats))
    /\ pd_pc' = "done"
    /\ UNCHANGED <<envVars, scrapeVars, loopVars, poolVars, uiVars, player_stats, hero_stats,
                   all_player_details, all_matches>>

NextAgg == ProcessMatchStep \/ BuildDataFrames

SpecAgg == InitAgg /\ [][NextAgg]_vars

\* A whole call of process_data (calculate_stats and the table builders in
\* personal_detailed) on the list ms.
RunProcessData(ms) ==
    LET a == Fold(EmptyAcc, ms)
    IN  /\ player_stats' = a.player_stats
        /\ hero_stats' = a.hero_stats
        /\ all_player_details' = a.all_player_details
        /\ all_matches' = a.all_matches
        /\ pd_pc' = "done"
        /\ data_frames' = DataFrames(a, JoinOf(hash_seed, a.player_stats))

\* --------------------------------------------- the round loops of main()
InitMain ==
    /\ variant \in Variants
    /\ hash_seed \in HashSeeds
    /\ na_value = Null
    /\ ScrapeIdle /\ AggIdle /\ PoolIdle /\ UiIdle
    /\ round_num = 1 /\ all_rounds = <<>>
    /\ empty_rounds = 0
    /\ max_attempts = GsAttempts /\ found_rounds = 0
    /\ main_pc = "loop" /\ requested = <<>>

\* personal_detailed: one iteration of "for round_num in range(1, max_rounds + 1)"
PdRound ==
    /\ variant = "personal_detailed"
    /\ main_pc = "loop"
    /\ \E page \in SitePages(round_num) :
          LET round_matches == scrape_round(variant, page, round_num)
              last == round_num = max_rounds
          IN  /\ requested' = Append(requested,
                      [round |-> round_num, fetch |-> page.fetch,
                       rows |-> page.rows,
                       outcome |-> Outcome(round_matches)])
              /\ IF round_matches.status = "raise"
                 THEN /\ main_pc' = "crashed"
                      /\ UNCHANGED <<round_num, all_rounds, empty_rounds>>
                 ELSE IF Falsy(round_matches)
                 THEN /\ empty_rounds' = empty_rounds + 1
                      /\ IF StopAfterEmpty(empty_rounds + 1) \/ last
                         THEN main_pc' = "after_loop" /\ UNCHANGED round_num
                         ELSE main_pc' = "loop" /\ round_num' = round_num + 1
                      /\ UNCHANGED all_rounds
                 ELSE /\ empty_rounds' = 0
                      /\ all_rounds' = all_rounds \o round_matches.matches
                      /\ IF last
                         THEN main_pc' = "after_loop" /\ UNCHANGED round_num
                         ELSE main_pc' = "loop" /\ round_num' = round_num + 1
    /\ UNCHANGED <<envVars, scrapeVars, aggVars, poolVars, uiVars, max_attempts, found_rounds>>

GsRoundNoReset ==
    /\ variant = "gsheets_format"
    /\ main_pc = "loop"
    /\ IF OutOfAttempts(max_attempts)
       THEN /\ main_pc' = "after_loop"
            /\ UNCHANGED <<round_num, all_rounds, max_attempts, found_rounds,
                           requested>>
       ELSE \E page \in SitePages(round_num) :
          LET round_matches == scrape_round(variant, page, round_num)
              last == round_num = GsRounds
          IN  /\ requested' = Append(requested,
                      [round |-> round_num, fetch |-> page.fetch,
                       rows |-> page.rows,
                       outcome |-> Outcome(round_matches)])
              /\ IF round_matches.status = "raise"
                 THEN /\ main_pc' = "crashed"
                      /\ UNCHANGED <<round_num, all_rounds, max_attempts,
                                     found_rounds>>
                 ELSE /\ IF Falsy(round_matches)
                         THEN /\ max_attempts' = max_attempts - 1
                              /\ UNCHANGED <<all_rounds, found_rounds>>
                         ELSE /\ all_rounds' = all_rounds \o round_matches.matches
                              /\ found_rounds' = found_rounds + 1
                              /\ UNCHANGED max_attempts
                      /\ IF last
                         THEN main_pc' = "after_loop" /\ UNCHANGED round_num
                         ELSE main_pc' = "loop" /\ round_num' = round_num + 1
    /\ UNCHANGED <<envVars, scrapeVars, aggVars, poolVars, uiVars, empty_rounds>>

\* gsheets_format: one iteration of "for round_num in range(1, 21)"
GsRound ==
    /\ variant = "gsheets_format"
    /\ main_pc = "loop"
    /\ IF OutOfAttempts(max_attempts)
       THEN /\ main_pc' = "after_loop"
            /\ UNCHANGED <<round_num, all_rounds, max_attempts, found_rounds,
                           requested>>
       ELSE \E page \in SitePages(round_num) :
          LET round_matches == scrape_round(variant, page, round_num)
              last == round_num = GsRounds
          IN  /\ requested' = Append(requested,
                      [round |-> round_num, fetch |-> page.fetch,
                       rows |-> page.rows,
                       outcome |-> Outcome(round_matches)])
              /\ IF round_matches.status = "raise"
                 THEN /\ main_pc' = "crashed"
                      /\ UNCHANGED <<round_num, all_rounds, max_attempts,
                                     found_rounds>>
                 ELSE /\ IF Falsy(round_matches)
                         THEN /\ max_attempts' = max_attempts - 1
                              /\ UNCHANGED <<all_rounds, found_rounds>>
                         ELSE /\ all_rounds' = all_rounds \o round_matches.matches
                              /\ found_rounds' = found_rounds + 1
                              /\ max_attempts' = GsAttempts
                      /\ IF last
                         THEN main_pc' = "after_loop" /\ UNCHANGED round_num
                         ELSE main_pc' = "loop" /\ round_num' = round_num + 1
    /\ UNCHANGED <<envVars, scrapeVars, aggVars, poolVars, uiVars, empty_rounds>>

\* after the loop: "if not all_rounds" reports no data, else the statistics
\* are computed and saved
AfterLoop ==
    /\ main_pc = "after_loop"
    /\ IF all_rounds = <<>>
       THEN main_pc' = "no_data" /\ UNCHANGED aggVars
       ELSE main_pc' = "processed" /\ RunProcessData(all_rounds)
    /\ UNCHANGED <<envVars, scrapeVars, poolVars, uiVars, round_num, all_rounds,
                   empty_rounds, max_attempts, found_rounds, requested>>

NextMain == PdRound \/ GsRound \/ AfterLoop

SpecMain == InitMain /\ [][NextMain]_vars

\* ------------------------------------------------- analyze_tournament(url)
Running == {r \in DOMAIN futures : futures[r].state = "running"}
Queued == {r \in DOMAIN futures : futures[r].state = "queued"}

InitPool ==
    /\ variant = "gsheets_format"
    /\ hash_seed = CHOOSE seed \in HashSeeds : TRUE
    /\ na_value = Null
    /\ ScrapeIdle /\ AggIdle /\ UiIdle
    /\ round_num = 0 /\ all_rounds = <<>> /\ empty_rounds = 0
    /\ max_attempts = 0 /\ found_rounds = 0
    /\ main_pc = "idle" /\ requested = <<>>
    /\ futures = << >> /\ i = 0 /\ at_pc = "submit" /\ out_of_order = FALSE

\* "for round_num in range(1, 21): futures.append(executor.submit(...))"
SubmitAll ==
    /\ at_pc = "submit"
    /\ futures' = [r \in 1..NumFutures |->
                     [state |-> "queued",
                      result |-> [status |-> "pending", matches |-> <<>>]]]
    /\ at_pc' = "collect"
    /\ UNCHANGED <<envVars, scrapeVars, aggVars, loopVars, uiVars, i, out_of_order>>

\* an idle worker thread takes the oldest queued fetch
WorkerStart ==
    /\ Queued # {}
    /\ Cardinality(Running) < max_workers
    /\ LET r == CHOOSE x \in Queued : \A y \in Queued : x <= y
       IN  futures' = [futures EXCEPT ![r].state = "running"]
    /\ UNCHANGED <<envVars, scrapeVars, aggVars, loopVars, uiVars, i, at_pc,
                   out_of_order>>

\* a worker thread finishes cached_scrape(url, r)
WorkerFinish ==
    /\ \E r \in Running :
          /\ \E result \in {cached_scrape(page, r) : page \in ConcPages(r)} :
                futures' = [futures EXCEPT
                              ![r] = [state |-> "done", result |-> result]]
          /\ out_of_order' =
                (out_of_order \/ \E q \in 1..(r - 1) : futures[q].state # "done")
    /\ UNCHANGED <<envVars, scrapeVars, aggVars, loopVars, uiVars, i, at_pc>>

\* one iteration of "for i, future in enumerate(futures)": future.result()
\* blocks until that fetch is done
Collect ==
    /\ at_pc = "collect"
    /\ futures[FutureAt(i)].state = "done"
    /\ LET result == futures[FutureAt(i)].result
       IN  all_rounds' = IF Falsy(result) THEN all_rounds
                         ELSE all_rounds \o result.matches
    /\ i' = i + 1
    /\ at_pc' = IF i + 1 = NumFutures THEN "after" ELSE "collect"
    /\ UNCHANGED <<envVars, scrapeVars, aggVars, uiVars, futures, round_num,
                   empty_rounds, max_attempts, found_rounds, main_pc, requested,
                   out_of_order>>

\* "if not all_rounds: return None", else cached_process(all_rounds)
Return ==
    /\ at_pc = "after"
    /\ IF all_rounds = <<>>
       THEN at_pc' = "returned_none" /\ UNCHANGED aggVars
       ELSE at_pc' = "returned" /\ RunProcessData(all_rounds)
    /\ UNCHANGED <<envVars, scrapeVars, loopVars, uiVars, futures, i,
                   out_of_order>>

NextPool == SubmitAll \/ WorkerStart \/ WorkerFinish \/ Collect \/ Return

SpecPool == InitPool /\ [][NextPool]_vars

\* ------------------------------------------- the Streamlit app: main(), rerun
InitUi ==
    /\ variant = "gsheets_format"
    /\ hash_seed \in HashSeeds
    /\ na_value \in MissingValues
    /\ ScrapeIdle /\ AggIdle /\ LoopIdle /\ PoolIdle
    /\ site \in Sites
    /\ df = <<>> /\ tournament_name_ss = Null /\ match_count = -1
    /\ multi_df = <<>> /\ tournament_names = <<>>
    /\ aggregated_data = <<>>

ClickAnalyzeKeepsCount ==
    /\ site # << >>
    /\ \E url \in Urls :
          LET result == analyze_tournament(hash_seed, site[url], url)
          IN
          IF result # <<>>
          THEN /\ df' = <<result[1].frames>>
               /\ tournament_name_ss' = result[1].name
               /\ match_count' = IF match_count = -1
                                 THEN Len(result[1].frames.match_results)
                                 ELSE match_count
          ELSE UNCHANGED <<df, tournament_name_ss, match_count>>
    /\ aggregated_data' =
          AggregatedData(hash_seed, na_value, multi_df, tournament_names)
    /\ UNCHANGED <<envVars, scrapeVars, aggVars, loopVars, poolVars, site,
                   multi_df, tournament_names>>

\* the script run after a click on "Analyze Tournament"
ClickAnalyze ==
    /\ site # << >>
    /\ \E url \in Urls :
          LET result == analyze_tournament(hash_seed, site[url], url)
          IN
          IF result # <<>>
          THEN /\ df' = <<result[1].frames>>
               /\ tournament_name_ss' = result[1].name
               /\ match_count' = Len(result[1].frames.match_results)
          ELSE UNCHANGED <<df, tournament_name_ss, match_count>>
    /\ aggregated_data' =
          AggregatedData(hash_seed, na_value, multi_df, tournament_names)
    /\ UNCHANGED <<envVars, scrapeVars, aggVars, loopVars, poolVars, site,
                   multi_df, tournament_names>>

\* the script run after a click on "Compare Tournaments"
ClickCompare ==
    /\ site # << >>
    /\ \E urls \in UrlLists :
          LET loaded == LoadResults(hash_seed, site, urls)
          IN  /\ multi_df' = FramesOf(loaded)
              /\ tournament_names' = NamesOf(loaded)
    /\ aggregated_data' =
          AggregatedData(hash_seed, na_value, multi_df', tournament_names')
    /\ UNCHANGED <<envVars, scrapeVars, aggVars, loopVars, poolVars, site,
                   df, tournament_name_ss, match_count>>

NextUi == ClickAnalyze \/ ClickCompare

SpecUi == InitUi /\ [][NextUi]_vars

\* ================================================================== claims
SumField(f, field) == SumOver([k \in DOMAIN f |-> f[k][field]], DOMAIN f)

RECURSIVE SumRows(_, _)
SumRows(rows, field) ==
    IF rows = {} THEN 0
    ELSE LET r == CHOOSE x \in rows : TRUE
         IN  r[field] + SumRows(rows \ {r}, field)

DecidedMatches ==
    Cardinality({k \in 1..Len(all_matches) : all_matches[k].Winner # Null})

PlayerCounters(ps) ==
    [p \in Names |-> <<Get(ps, p, NewPlayer).wins, Get(ps, p, NewPlayer).losses>>]

HeroCounters(hs) ==
    [h \in Heroes |-> <<Get(hs, h, NewHero).wins, Get(hs, h, NewHero).losses>>]

Matchup(hs, a, b) == Get(Get(hs, a, NewHero).matchups, b, NewMatchup)

MatchupCounters(hs) ==
    [pair \in Heroes \X Heroes |->
        <<Matchup(hs, pair[1], pair[2]).wins, Matchup(hs, pair[1], pair[2]).losses>>]

\* C1: after every prefix of the match sequence, and in the returned player
\* table, the wins of all players sum to the losses of all players and to
\* the number of matches with a non-null winner.
C1_WinsLossesDecided ==
    /\ SumField(player_stats, "wins") = DecidedMatches
    /\ SumField(player_stats, "losses") = DecidedMatches
    /\ pd_pc = "done" =>
          /\ SumRows(data_frames.player_stats, "Wins") = DecidedMatches
          /\ SumRows(data_frames.player_stats, "Losses") = DecidedMatches

C1_Witness ==
    /\ pd_pc = "done"
    /\ Len(all_matches) = 2
    /\ all_matches[1].Winner # Null
    /\ all_matches[2].Winner = Null
    /\ SumRows(data_frames.player_stats, "Wins") = 1

\* C2: the nested matchup counters are mirror images after every processed
\* match (wins of A against B are the losses of B against A, A = B
\* included), and every row (A,B) of the flattened table has its row (B,A)
\* with wins and losses exchanged.
C2_MatchupAntiSymmetry ==
    /\ \A a \in Heroes, b \in Heroes :
          /\ Matchup(hero_stats, a, b).wins = Matchup(hero_stats, b, a).losses
          /\ Matchup(hero_stats, a, b).losses = Matchup(hero_stats, b, a).wins
    /\ pd_pc = "done" =>
          \A r \in data_frames.hero_matchups :
             \E q \in data_frames.hero_matchups :
                /\ q.Hero = r.OpponentHero /\ q.OpponentHero = r.Hero
                /\ q.Wins = r.Losses /\ q.Losses = r.Wins

C2_Witness ==
    /\ pd_pc = "done"
    /\ \E r \in data_frames.hero_matchups :
          r.Hero = r.OpponentHero /\ r.Wins = 1
    /\ \E r \in data_frames.hero_matchups :
          r.Hero # r.OpponentHero /\ r.Wins = 1 /\ r.Losses = 0

\* C3: the iteration that processes a match with a null winner changes no
\* player, hero or matchup counter and appends that match, once, to the
\* match list; the returned match table is that list.
C3_UndecidedChangesNoCounter ==
    [][/\ (/\ pd_pc = "loop"
            /\ Len(all_matches') = Len(all_matches) + 1
            /\ all_matches'[Len(all_matches')].Winner = Null)
          => /\ PlayerCounters(player_stats') = PlayerCounters(player_stats)
             /\ HeroCounters(hero_stats') = HeroCounters(hero_stats)
             /\ MatchupCounters(hero_stats') = MatchupCounters(hero_stats)
             /\ SubSeq(all_matches', 1, Len(all_matches)) = all_matches
       /\ pd_pc' = "done" => data_frames'.match_results = all_matches']_vars

C3_Witness ==
    /\ pd_pc = "done"
    /\ Len(all_matches) = 2
    /\ all_matches[1].Winner # Null
    /\ all_matches[2].Winner = Null
    /\ all_matches[1].Player1Name # all_matches[1].Player2Name
    /\ Len(data_frames.match_results) = 2

TableRows ==
    data_frames.player_stats \cup data_frames.hero_stats
        \cup data_frames.hero_matchups

\* C9 as stated: every win rate is within [0, 100] and is 0 exactly when
\* the row has no decided match.
C9_ZeroExactlyWhenNoDecided ==
    pd_pc = "done" =>
        \A r \in TableRows :
            /\ r.WinRate \in 0..10000
            /\ r.WinRate = 0 <=> r.Wins + r.Losses = 0

\* C9 amended: every win rate is within [0, 100]; it is 0 whenever the row
\* has no win (so also when it has no decided match), and for a row with
\* fewer than 20000 decided matches it is 0 only then.
C9_ZeroWhenNoWin ==
    pd_pc = "done" =>
        \A r \in TableRows :
            /\ r.WinRate \in 0..10000
            /\ r.Wins = 0 => r.WinRate = 0
            /\ r.Wins + r.Losses < 20000 => (r.WinRate = 0 => r.Wins = 0)

C9_Witness ==
    /\ pd_pc = "done"
    /\ \E r \in data_frames.player_stats :
          r.Wins = 0 /\ r.Losses = 1 /\ r.WinRate = 0
    /\ \E r \in data_frames.hero_matchups : r.WinRate = 10000

EligibleRows == SelectSeq(match_rows, LAMBDA players : Len(players) >= 2)

\* C10: the winner of every record scrape_round builds is the name of the
\* first participant if the first block has the winner marker, else the
\* name of the second if the second has it, else null.
C10_WinnerResolution ==
    \A k \in 1..Len(matches) :
        LET players == EligibleRows[k]
        IN  /\ players[1].winner => matches[k].Winner = players[1].name
            /\ (~players[1].winner /\ players[2].winner)
                    => matches[k].Winner = players[2].name
            /\ (~players[1].winner /\ ~players[2].winner)
                    => matches[k].Winner = Null
            /\ matches[k].Winner \in {players[1].name, players[2].name, Null}

C10_Witness ==
    /\ sr_pc = "returned"
    /\ Len(match_rows) = 2
    /\ Len(sr_result.matches) = 2
    /\ match_rows[1][1].winner /\ match_rows[1][2].winner
    /\ match_rows[1][1].name # match_rows[1][2].name
    /\ sr_result.matches[1].Winner = match_rows[1][1].name
    /\ ~match_rows[2][1].winner /\ match_rows[2][2].winner
    /\ sr_result.matches[2].Winner = match_rows[2][2].name

Outcomes(n) == [k \in 1..n |-> requested[k].outcome]

\* The tolerance of each sequential collector, as the claim gives it.
ClaimedTolerance == IF variant = "personal_detailed" THEN 1 ELSE 3

EmptyRunEndsAt(j, n) ==
    j >= n /\ \A k \in (j - n + 1)..j : requested[k].outcome = "empty"

\* C4: the sequential collectors request rounds 1, 2, ... in order, and no
\* round is requested after a run of max_consecutive_empty consecutive empty
\* rounds (1 in personal_detailed, 3 in gsheets_format); with tolerance 1,
\* rounds 1-3 with data and round 4 empty, round 4 is the last one requested.
C4_StopsAfterEmptyRun ==
    /\ \A j \in 1..Len(requested) :
          /\ requested[j].round = j
          /\ EmptyRunEndsAt(j, ClaimedTolerance) => Len(requested) = j
    /\ (/\ variant = "personal_detailed"
        /\ Len(requested) >= 4
        /\ Outcomes(4) = <<"data", "data", "data", "empty">>)
          => requested[Len(requested)].round = 4

C4_Witness ==
    /\ variant = "personal_detailed"
    /\ main_pc = "processed"
    /\ Len(requested) = 4
    /\ Outcomes(4) = <<"data", "data", "data", "empty">>
    /\ Len(all_rounds) >= 3

DoneEmpty(r) == futures[r].state = "done" /\ Falsy(futures[r].result)

RoundOf(match) == match.Round[2]

NoEmptyRunBefore(r, n) ==
    ~\E j \in n..(r - 1) : \A k \in (j - n + 1)..j : DoneEmpty(k)

\* C5 as stated, with the largest tolerance of the repository (3): a worker
\* issues no request for a round once 3 consecutive earlier rounds are known
\* to be empty, and no record of such a round is in the emitted sequence.
C5_PoolStopsAfterEmptyRun ==
    [][/\ \A r \in DOMAIN futures :
             (r \in DOMAIN futures' /\ futures[r].state = "queued"
                /\ futures'[r].state = "running")
                => NoEmptyRunBefore(r, 3)
       /\ at_pc' = "returned" =>
             \A k \in 1..Len(all_rounds') : NoEmptyRunBefore(RoundOf(all_rounds'[k]), 3)]_vars

RecordsOfRound(r) == SelectSeq(all_rounds, LAMBDA m : RoundOf(m) = r)

\* C6: whatever the completion order of the fetches, the emitted sequence is
\* in ascending round order, and once all fetches are read the records of
\* each round are the list its fetch returned, in that order.
C6_EmittedInRoundOrder ==
    /\ \A a \in 1..Len(all_rounds), b \in 1..Len(all_rounds) :
          a < b => RoundOf(all_rounds[a]) <= RoundOf(all_rounds[b])
    /\ at_pc \in {"after", "returned", "returned_none"} =>
          \A r \in DOMAIN futures :
             RecordsOfRound(r) = futures[r].result.matches

\* the fetch of a round finished before the fetch of an earlier round, and
\* rounds 1 and 2 both have records
C6_Witness ==
    /\ at_pc = "returned"
    /\ out_of_order
    /\ Len(all_rounds) = 4
    /\ RoundOf(all_rounds[1]) = 1 /\ RoundOf(all_rounds[3]) = 2
    /\ all_rounds[1].Winner = Null /\ all_rounds[2].Winner = "Alice"

\* The player, hero and matchup tallies of a set of DataFrames; the heroes a
\* player used as a set.
Tallies(frames) ==
    [players |-> {[Player |-> r.Player, Wins |-> r.Wins, Losses |-> r.Losses,
                   WinRate |-> r.WinRate,
                   HeroesUsed |-> {r.HeroesUsed[k] : k \in 1..Len(r.HeroesUsed)}] :
                     r \in frames.player_stats},
     heroes |-> frames.hero_stats,
     matchups |-> frames.hero_matchups]

LoadedMatches ==
    Concat([k \in 1..Len(multi_df) |-> multi_df[k].match_results])

\* C7: whenever tournaments are loaded, the tallies the merged view shows
\* are those of process_data run once over the concatenation, in load
\* order, of the loaded tournaments' match sequences.
C7_MergedEqualsAggregateOfConcat ==
    Len(multi_df) >= 1 =>
        /\ Len(aggregated_data) = 1
        /\ Tallies(aggregated_data[1]) =
              Tallies(process_data(LoadedMatches,
                  CHOOSE join \in JoinOrders(Fold(EmptyAcc, LoadedMatches).player_stats) : TRUE))

\* two different tournaments are loaded, one with an undecided match
C7_Witness ==
    /\ Len(multi_df) = 2
    /\ tournament_names[1] # tournament_names[2]
    /\ Len(aggregated_data) = 1
    /\ Len(aggregated_data[1].match_results) = 3
    /\ \E k \in 1..3 : aggregated_data[1].match_results[k].Winner = "NaN"
    /\ \E r \in aggregated_data[1].player_stats : r.Player = "Alice" /\ r.Wins = 2

\* C8 as stated: the labels of the combined tournaments are pairwise
\* distinct in every state (a duplicate is rejected, not added).
C8_LabelsDistinct ==
    \A a \in 1..Len(tournament_names), b \in 1..Len(tournament_names) :
        a # b => tournament_names[a] # tournament_names[b]

\* ------------------------------------------------------------------- C11
\* The hero of the side scrape_round resolved as the winner of a row.
HeroOfWinningSide(players) ==
    IF players[1].winner THEN players[1].hero
    ELSE IF players[2].winner THEN players[2].hero
    ELSE Null

\* C11: the winning hero of every record is the hero of the side that won,
\* and is null exactly when the winner is null, also when both participants
\* carry the same name.
C11_WinningHeroOfWinningSide ==
    \A k \in 1..Len(matches) :
        /\ matches[k].WinningHero = HeroOfWinningSide(EligibleRows[k])
        /\ (matches[k].WinningHero = Null) <=> (matches[k].Winner = Null)

\* ------------------------------------------------------------------- C12
\* What a record keeps of the row it was built from.
SidesOf(match) ==
    <<match.Player1Name, match.Player1Hero, match.Player2Name, match.Player2Hero>>

SidesOfRow(players) ==
    <<players[1].name, players[1].hero, players[2].name, players[2].hero>>

\* C12: while no row has failed, the records are those of the rows with two
\* participant blocks, one record per row and in page order; a row with
\* fewer blocks gives none, so there are never more records than rows, and
\* the returned list is that list of records.
C12_OneRecordPerRowInOrder ==
    sr_pc \in {"loop", "returned"} =>
        /\ Len(matches) = Len(EligibleRows)
        /\ Len(matches) <= Len(match_rows)
        /\ \A k \in 1..Len(matches) :
              /\ SidesOf(matches[k]) = SidesOfRow(EligibleRows[k])
              /\ matches[k].Round = RoundLabel(round_num_arg)
        /\ (sr_pc = "returned" /\ sr_result.status = "ok")
              => sr_result.matches = matches

\* a row with one block followed by an undecided row: one record is returned
C12_Witness ==
    /\ sr_pc = "returned"
    /\ Len(match_rows) = 2
    /\ Len(match_rows[1]) = 1 /\ Len(match_rows[2]) = 2
    /\ ~match_rows[2][1].winner /\ ~match_rows[2][2].winner
    /\ Len(sr_result.matches) = 1

\* ------------------------------------------------------------------- C13
\* A row with two participant blocks of which one lacks its name or hero
\* element.
Malformed(players) == Len(players) >= 2 /\ RowRaises(players)

WellFormedRows ==
    SelectSeq(match_rows, LAMBDA players : Len(players) >= 2 /\ ~RowRaises(players))

\* C13 as stated: once the page is fetched the call never fails on a row; a
\* malformed row is skipped and the records of the well-formed rows of the
\* round are kept and returned.
C13_MalformedRowSkipped ==
    Len(match_rows) > 0 =>
        /\ sr_pc \in {"loop", "returned"}
        /\ Len(matches) = Len(WellFormedRows)
        /\ \A k \in 1..Len(matches) :
              SidesOf(matches[k]) = SidesOfRow(WellFormedRows[k])

\* ------------------------------------------------------------------- C14
TransportFailure(request) == request.fetch \in {"raise", "non200"}

\* C14 as stated, for the sequential collectors: a round whose request
\* raised or was answered with a status other than 200 is an empty round
\* (it counts toward the stopping rule like one), and the collection does
\* not end in the exception.
C14_TransportFailureIsEmptyRound ==
    /\ \A k \in 1..Len(requested) :
          TransportFailure(requested[k]) => requested[k].outcome = "empty"
    /\ (Len(requested) > 0 /\ TransportFailure(requested[Len(requested)]))
          => main_pc # "crashed"

\* ------------------------------------------------------------------- C15
\* C15 as stated: the iteration that processes a decided match adds one win
\* to one player entry and one loss to another, distinct, player entry and
\* changes the counters of no other player.
C15_WinAndLossToDistinctPlayers ==
    [][(/\ pd_pc = "loop"
        /\ Len(all_matches') = Len(all_matches) + 1
        /\ all_matches'[Len(all_matches')].Winner # Null)
          => \E w \in Names, l \in Names :
                /\ w # l
                /\ PlayerCounters(player_stats')[w] =
                      <<PlayerCounters(player_stats)[w][1] + 1,
                        PlayerCounters(player_stats)[w][2]>>
                /\ PlayerCounters(player_stats')[l] =
                      <<PlayerCounters(player_stats)[l][1],
                        PlayerCounters(player_stats)[l][2] + 1>>
                /\ \A p \in Names \ {w, l} :
                      PlayerCounters(player_stats')[p] =
                          PlayerCounters(player_stats)[p]]_vars

\* ------------------------------------------------------------------- C16
\* The record with its two sides exchanged and the same winner.
SwapSides(match) ==
    [match EXCEPT !.Player1Name = match.Player2Name,
                  !.Player1Hero = match.Player2Hero,
                  !.Player2Name = match.Player1Name,
                  !.Player2Hero = match.Player1Hero]

CountersOf(acc) ==
    <<PlayerCounters(acc.player_stats), HeroCounters(acc.hero_stats),
      MatchupCounters(acc.hero_stats)>>

\* C16 as stated: exchanging the sides of any one of the processed matches
\* leaves every player, hero and matchup counter as it is.
C16_SideSwapChangesNoTally ==
    \A k \in 1..Len(all_matches) :
        CountersOf(Fold(EmptyAcc,
                        [all_matches EXCEPT ![k] = SwapSides(all_matches[k])]))
            = CountersOf(Acc)

\* ------------------------------------------------------------------- C17
\* C17 as stated: the output process_data returned is the output of a run
\* on the same match sequence in any process (under any string hashing),
\* the 'Heroes Used' strings included.
C17_SameOutputInEveryProcess ==
    pd_pc = "done" =>
        \A seed \in HashSeeds :
            process_data(all_matches,
                         JoinOf(seed, Fold(EmptyAcc, all_matches).player_stats))
                = data_frames

\* ------------------------------------------------------------------- C18
\* Heroes a and b were the two sides of a processed match with a winner.
MetDecided(a, b) ==
    \E k \in 1..Len(all_matches) :
        /\ all_matches[k].Winner # Null
        /\ \/ all_matches[k].Player1Hero = a /\ all_matches[k].Player2Hero = b
           \/ all_matches[k].Player1Hero = b /\ all_matches[k].Player2Hero = a

\* C18: the returned matchup table has a row for an ordered pair of heroes
\* exactly when the two met in a decided match, one row per pair, and every
\* row has total_matches = wins + losses > 0.
C18_OneRowPerMetPair ==
    pd_pc = "done" =>
        /\ \A a \in Heroes, b \in Heroes :
              MetDecided(a, b) <=>
                 \E r \in data_frames.hero_matchups :
                    r.Hero = a /\ r.OpponentHero = b
        /\ \A r \in data_frames.hero_matchups, q \in data_frames.hero_matchups :
              (r.Hero = q.Hero /\ r.OpponentHero = q.OpponentHero) => r = q
        /\ \A r \in data_frames.hero_matchups :
              r.TotalMatches = r.Wins + r.Losses /\ r.TotalMatches > 0

\* an undecided mirror match and a decided match of HeroX against HeroY:
\* the table has the rows (HeroX, HeroY) and (HeroY, HeroX) only
C18_Witness ==
    /\ pd_pc = "done"
    /\ Len(all_matches) = 2
    /\ all_matches[1].Winner = Null /\ all_matches[2].Winner # Null
    /\ all_matches[1].Player1Hero = all_matches[1].Player2Hero
    /\ Cardinality(data_frames.hero_matchups) = 2
    /\ \E r \in data_frames.hero_matchups :
          r.Hero = "HeroY" /\ r.OpponentHero = "HeroX" /\ r.Wins = 0 /\ r.Losses = 1

\* ------------------------------------------------------------------- C19
\* C19 as stated: every bar of the comparison chart shows, for its hero and
\* tournament label, the value that hero has in the HeroStat table of each
\* loaded tournament with that label (the mean Sum / Count is that value),
\* and every row of the raw table is a row of its own tournament.
C19_TaggedModeNeverCombines ==
    LET shown == ComparisonData(multi_df, tournament_names)
    IN  Len(shown) = 1 =>
           /\ \A bar \in shown[1].bars :
                 \A k \in 1..Len(multi_df) :
                    \A r \in multi_df[k].hero_stats :
                       (tournament_names[k] = bar.Tournament /\ r.Hero = bar.Hero)
                          => bar.Sum = bar.Count * r[bar.Metric]
           /\ \A e \in shown[1].raw :
                 /\ e.row \in multi_df[e.pos].hero_stats
                 /\ e.Tournament = tournament_names[e.pos]

\* ------------------------------------------------------------------- C20
\* C20: the combined results and the labels have the same length, and the
\* result and the label at each position are those analyze_tournament
\* returns for one and the same URL.
C20_LabelsMatchResults ==
    /\ Len(multi_df) = Len(tournament_names)
    /\ \A k \in 1..Len(multi_df) :
          \E url \in Urls :
             analyze_tournament(hash_seed, site[url], url)
                = <<[frames |-> multi_df[k], name |-> tournament_names[k]]>>

\* after Analyze Tournament and Compare Tournaments clicks on a site where
\* one tournament does not load: two tournaments with different labels
C20_Witness ==
    /\ df # <<>>
    /\ \E url \in Urls : analyze_tournament(hash_seed, site[url], url) = <<>>
    /\ Len(multi_df) = 2 /\ Len(tournament_names) = 2
    /\ tournament_names[1] = "Pro Tour Tokyo"
    /\ tournament_names[2] = "Calling Bologna 2025"
    /\ multi_df[1] # multi_df[2]

\* ------------------------------------------------------------------- C21
\* The heroes the participant named p piloted in the processed matches, the
\* undecided ones included.
HeroesPiloted(p) ==
    {all_matches[k].Player1Hero :
        k \in {j \in 1..Len(all_matches) : all_matches[j].Player1Name = p}}
    \cup
    {all_matches[k].Player2Hero :
        k \in {j \in 1..Len(all_matches) : all_matches[j].Player2Name = p}}

\* C21: after every processed match, decided or not, heroes_used of every
\* player is exactly the set of heroes that player piloted, a player has an
\* entry as soon as they took part in a match, and the returned player
\* table lists exactly those heroes.
C21_HeroesUsedAreHeroesPiloted ==
    /\ \A p \in Names :
          /\ Get(player_stats, p, NewPlayer).heroes_used = HeroesPiloted(p)
          /\ HeroesPiloted(p) # {} <=> p \in DOMAIN player_stats
    /\ pd_pc = "done" =>
          \A r \in data_frames.player_stats :
             /\ {r.HeroesUsed[k] : k \in 1..Len(r.HeroesUsed)} = HeroesPiloted(r.Player)
             /\ Len(r.HeroesUsed) = Cardinality(HeroesPiloted(r.Player))

\* Alice piloted HeroX in an undecided match and HeroY in a decided one
C21_Witness ==
    /\ pd_pc = "done"
    /\ Len(all_matches) = 2
    /\ all_matches[1].Winner = Null /\ all_matches[2].Winner # Null
    /\ all_matches[1].Player1Name = "Alice" /\ all_matches[1].Player1Hero = "HeroX"
    /\ all_matches[2].Player2Name = "Alice" /\ all_matches[2].Player2Hero = "HeroY"
    /\ all_matches[1].Player2Name = "Bob" /\ all_matches[2].Player1Name = "Bob"
    /\ player_stats["Alice"].heroes_used = {"HeroX", "HeroY"}

\* ------------------------------------------------------------------- C22
\* C22: the step that runs the aggregator on the collected records leaves
\* every one of them as it was (same fields, same values, same list), and
\* the match table it returns holds each input record once, in input order.
C22_InputUnchangedAndKeptInOrder ==
    [][(main_pc = "after_loop" /\ main_pc' = "processed")
          => /\ all_rounds' = all_rounds
             /\ all_matches' = all_rounds
             /\ data_frames'.match_results = all_rounds
             /\ Len(data_frames'.match_results) = Len(all_rounds)]_vars

\* the aggregator ran on three rounds of records, undecided ones among them
C22_Witness ==
    /\ main_pc = "processed"
    /\ Len(all_rounds) >= 4
    /\ all_rounds[1].Winner = Null /\ all_rounds[2].Winner = "Alice"
    /\ RoundOf(all_rounds[1]) # RoundOf(all_rounds[4])
    /\ data_frames.match_results = all_rounds

\* ------------------------------------------------------------------- C23
\* The page the site served for the j-th request.
ServedPage(j) == [fetch |-> requested[j].fetch, rows |-> requested[j].rows]

\* The number of consecutive empty rounds at the end of the first n requests.
RECURSIVE TrailingEmpties(_)
TrailingEmpties(n) ==
    IF n = 0 \/ requested[n].outcome # "empty" THEN 0
    ELSE 1 + TrailingEmpties(n - 1)

RecordsOfRequest(j) == SelectSeq(all_rounds, LAMBDA m : RoundOf(m) = j)

\* C23: in the sequential collectors the consecutive-empty counter always
\* stands at the number of empty rounds since the last non-empty one (a
\* non-empty round puts it back to its initial value); the collector stops
\* before round 20 only at the end of a run of as many empty rounds as its
\* tolerance (3 in gsheets_format, 1 in personal_detailed), so empty rounds
\* separated by a non-empty round never add up to a stop; and the emitted
\* sequence holds, for every non-empty round requested, all the records of
\* that round.
C23_NonEmptyRoundResetsCounter ==
    /\ main_pc # "crashed" =>
          IF variant = "gsheets_format"
          THEN max_attempts = GsAttempts - TrailingEmpties(Len(requested))
          ELSE empty_rounds = TrailingEmpties(Len(requested))
    /\ main_pc \in {"after_loop", "no_data", "processed"} =>
          \/ Len(requested) = max_rounds
          \/ TrailingEmpties(Len(requested)) = ClaimedTolerance
    /\ \A j \in 1..Len(requested) :
          requested[j].outcome = "data" =>
             /\ RecordsOfRequest(j) = scrape_round(variant, ServedPage(j), j).matches
             /\ RecordsOfRequest(j) # <<>>

\* gsheets_format went on after two empty rounds, found round 3, went on
\* after a third empty round and stopped after three empty rounds in a row
C23_Witness ==
    /\ variant = "gsheets_format"
    /\ main_pc = "processed"
    /\ Len(requested) = 6
    /\ Outcomes(6) = <<"empty", "empty", "data", "empty", "empty", "empty">>
    /\ Len(all_rounds) >= 1
    /\ RoundOf(all_rounds[1]) = 3

\* ------------------------------------------------------------------- C24
NoRoundYieldedRecords ==
    Len(requested) > 0 /\ \A k \in 1..Len(requested) : requested[k].outcome # "data"

\* C24 as stated, for the sequential collectors: while no requested round
\* has yielded a record the collection has not ended in an exception, the
\* match sequence is empty and the aggregator has not run; the run ends in
\* the caller's "no data" message.
C24_NoDataEndsNormallyEmpty ==
    NoRoundYieldedRecords =>
        /\ main_pc \in {"loop", "after_loop", "no_data"}
        /\ all_rounds = <<>>
        /\ pd_pc = "idle" /\ data_frames = Null

\* ------------------------------------------------------------------- C25
MatchupRowsOf(hero) == {q \in data_frames.hero_matchups : q.Hero = hero}

\* C25: after every processed match the wins (losses) of every hero are the
\* sum of the wins (losses) of its matchups, and the wins of all heroes sum
\* to the losses of all heroes and to the number of decided matches; the
\* same holds between the rows of the returned hero table and the rows of
\* the returned matchup table.
C25_HeroTotalsMatchMatchups ==
    /\ \A h \in DOMAIN hero_stats :
          /\ hero_stats[h].wins = SumField(hero_stats[h].matchups, "wins")
          /\ hero_stats[h].losses = SumField(hero_stats[h].matchups, "losses")
    /\ SumField(hero_stats, "wins") = DecidedMatches
    /\ SumField(hero_stats, "losses") = DecidedMatches
    /\ pd_pc = "done" =>
          /\ \A r \in data_frames.hero_stats :
                /\ r.Wins = SumRows(MatchupRowsOf(r.Hero), "Wins")
                /\ r.Losses = SumRows(MatchupRowsOf(r.Hero), "Losses")
          /\ SumRows(data_frames.hero_stats, "Wins") = DecidedMatches
          /\ SumRows(data_frames.hero_stats, "Losses") = DecidedMatches

\* a decided mirror match of HeroX and a win of HeroX over HeroY: HeroX
\* has two matchup rows, which add up to its 2 wins and 1 loss
C25_Witness ==
    /\ pd_pc = "done"
    /\ Len(all_matches) = 2
    /\ Cardinality(MatchupRowsOf("HeroX")) = 2
    /\ \E r \in data_frames.hero_stats :
          r.Hero = "HeroX" /\ r.Wins = 2 /\ r.Losses = 1
    /\ \E q \in data_frames.hero_matchups :
          q.Hero = "HeroX" /\ q.OpponentHero = "HeroX" /\ q.Wins = 1 /\ q.Losses = 1

\* ------------------------------------------------------------------- C26
\* Hero h was on one side of a processed match with a winner.
InDecidedMatch(h) ==
    \E k \in 1..Len(all_matches) :
        /\ all_matches[k].Winner # Null
        /\ h \in {all_matches[k].Player1Hero, all_matches[k].Player2Hero}

\* Player p was on one side of a processed match.
InAnyMatch(p) ==
    \E k \in 1..Len(all_matches) :
        p \in {all_matches[k].Player1Name, all_matches[k].Player2Name}

AllUndecidedFor(p) ==
    \A k \in 1..Len(all_matches) :
        p \in {all_matches[k].Player1Name, all_matches[k].Player2Name}
            => all_matches[k].Winner = Null

\* C26: the returned hero table has a row for a hero exactly when the hero
\* took part in a decided match, one row per hero, each with
\* total_matches >= 1; the returned player table has a row for a player
\* exactly when the player appears in a match, one row per player, and the
\* row of a player whose matches are all undecided has wins 0, losses 0 and
\* win rate 0.
C26_RowsOfHeroAndPlayerTables ==
    pd_pc = "done" =>
        /\ \A h \in Heroes :
              InDecidedMatch(h) <=> \E r \in data_frames.hero_stats : r.Hero = h
        /\ \A r \in data_frames.hero_stats, q \in data_frames.hero_stats :
              r.Hero = q.Hero => r = q
        /\ \A r \in data_frames.hero_stats :
              r.TotalMatches >= 1 /\ r.TotalMatches = r.Wins + r.Losses
        /\ \A p \in Names :
              InAnyMatch(p) <=> \E r \in data_frames.player_stats : r.Player = p
        /\ \A r \in data_frames.player_stats, q \in data_frames.player_stats :
              r.Player = q.Player => r = q
        /\ \A r \in data_frames.player_stats :
              AllUndecidedFor(r.Player)
                 => r.Wins = 0 /\ r.Losses = 0 /\ r.WinRate = 0

\* HeroY and Bob are seen only in an undecided match, HeroX wins a mirror
\* match between two other participants
C26_Witness ==
    /\ pd_pc = "done"
    /\ Len(all_matches) = 2
    /\ all_matches[1].Winner = Null
    /\ "HeroY" \in {all_matches[1].Player1Hero, all_matches[1].Player2Hero}
    /\ "Bob" \in {all_matches[1].Player1Name, all_matches[1].Player2Name}
    /\ all_matches[2].Winner # Null
    /\ ~\E r \in data_frames.hero_stats : r.Hero = "HeroY"
    /\ \E r \in data_frames.hero_stats : r.Hero = "HeroX" /\ r.TotalMatches = 2
    /\ \E r \in data_frames.player_stats :
          r.Player = "Bob" /\ r.Wins = 0 /\ r.Losses = 0 /\ r.WinRate = 0

\* ------------------------------------------------------------------- C27
DetailRows(p, result) ==
    Cardinality({k \in 1..Len(all_player_details) :
                    /\ all_player_details[k].Player = p
                    /\ all_player_details[k].Result = result})

UndecidedMatchesOf(p) ==
    Cardinality({k \in 1..Len(all_matches) :
                    /\ all_matches[k].Winner = Null
                    /\ p \in {all_matches[k].Player1Name, all_matches[k].Player2Name}})

\* C27 as stated: every processed match has two player-detail rows, one
\* for each participant, and for every player the rows with Result 'Win'
\* number PlayerStat.wins and the rows with Result 'Loss' number
\* PlayerStat.losses plus the undecided matches the player took part in.
C27_DetailRowsMatchPlayerStats ==
    /\ Len(all_player_details) = 2 * Len(all_matches)
    /\ \A k \in 1..Len(all_matches) :
          /\ all_player_details[2 * k - 1].Player = all_matches[k].Player1Name
          /\ all_player_details[2 * k].Player = all_matches[k].Player2Name
    /\ \A p \in Names :
          /\ DetailRows(p, "Win") = PlayerCounters(player_stats)[p][1]
          /\ DetailRows(p, "Loss") =
                PlayerCounters(player_stats)[p][2] + UndecidedMatchesOf(p)

\* ------------------------------------------------------------------- C28
\* The tournament the sequential collector was run on: the pages it was
\* served, and an empty results page for every round it did not request.
TournamentServed ==
    [r \in 1..NumFutures |->
        IF r <= Len(requested) THEN ServedPage(r)
        ELSE [fetch |-> "200", rows |-> <<>>]]

\* No round without records comes before a round with records: the rounds
\* with records are exactly rounds 1..k.
GaplessSoFar ==
    \A a \in 1..Len(requested), b \in 1..Len(requested) :
        (a < b /\ requested[b].outcome = "data") => requested[a].outcome = "data"

SequentialEnded == main_pc \in {"after_loop", "no_data", "processed", "crashed"}

\* C28 as stated: when a sequential collector has ended on a tournament
\* whose rounds with records are exactly rounds 1..k, it has ended normally
\* and its match sequence is the one analyze_tournament collects from the
\* same tournament.
C28_SequentialEqualsConcurrent ==
    (SequentialEnded /\ GaplessSoFar) =>
        /\ main_pc # "crashed"
        /\ all_rounds = CollectAll(TournamentServed)

\* ------------------------------------------------------------------- C29
SingleState == <<df, tournament_name_ss, match_count>>

\* C29: a script run either leaves the stored result, the tournament name
\* and the match count of the single-tournament view all as they were (as
\* a failed Analyze Tournament does) or leaves a stored result; and
\* whenever a result is stored, the match count is the number of rows of
\* its match table and the result and the name are those
\* analyze_tournament returns for one and the same URL.
C29_SingleTournamentStateTogether ==
    [][/\ SingleState' = SingleState \/ df' # <<>>
       /\ df' # <<>> =>
             /\ match_count' = Len(df'[1].match_results)
             /\ \E url \in Urls :
                   analyze_tournament(hash_seed, site[url], url)
                      = <<[frames |-> df'[1], name |-> tournament_name_ss']>>]_vars

\* the Tokyo result is stored, with its one match, in a session where the
\* (French) Bologna URL does not load and two tournaments were compared
C29_Witness ==
    /\ df # <<>>
    /\ tournament_name_ss = "Pro Tour Tokyo"
    /\ match_count = 1
    /\ analyze_tournament(hash_seed, site[UrlBolognaFr], UrlBolognaFr) = <<>>
    /\ Len(multi_df) = 2
    /\ multi_df[1] # df[1]

\* ------------------------------------------------------------------- C30
\* The orders a list of up to MaxMatches matches can be put in, as lists of
\* positions.
PositionOrders == UNION {Orders(1..n) : n \in 0..MaxMatches}

\* The processed matches in the order given by a list of positions.
RECURSIVE PermuteBy(_)
PermuteBy(order) ==
    IF order = <<>> THEN <<>>
    ELSE <<all_matches[Head(order)]>> \o PermuteBy(Tail(order))

RECURSIVE ReverseSeq(_)
ReverseSeq(s) ==
    IF s = <<>> THEN <<>> ELSE ReverseSeq(Tail(s)) \o <<Head(s)>>

StatsOf(acc) == <<acc.player_stats, acc.hero_stats>>

TalliesOf(acc) == Tallies(DataFrames(acc, JoinOf(hash_seed, acc.player_stats)))

\* C30: when process_data has returned, a run of its loop on any
\* permutation of the same matches ends with the same player entries (wins,
\* losses, heroes_used) and the same hero and matchup entries, from which
\* alone the tables are built; the player, hero and matchup tables returned
\* have the rows of those of a run on the reversed list (heroes used as a
\* set).
C30_TalliesIndependentOfOrder ==
    pd_pc = "done" =>
        /\ \A order \in PositionOrders :
              Len(order) = Len(all_matches) =>
                 StatsOf(Fold(EmptyAcc, PermuteBy(order)))
                    = <<player_stats, hero_stats>>
        /\ Tallies(data_frames) = TalliesOf(Fold(EmptyAcc, ReverseSeq(all_matches)))

\* two different decided matches were processed: Alice beat Bob, then lost
\* to Bob while piloting another hero
C30_Witness ==
    /\ pd_pc = "done"
    /\ Len(all_matches) = 2
    /\ all_matches[1].Winner = "Alice" /\ all_matches[2].Winner = "Bob"
    /\ all_matches[1].Player1Name # all_matches[1].Player2Name
    /\ all_matches[2].Player1Name # all_matches[2].Player2Name
    /\ Cardinality(player_stats["Alice"].heroes_used) = 2
    /\ PermuteBy(<<2, 1>>) # all_matches

====
